---- MODULE Spec2Model ----
(***************************************************************************)
(* The RBAC schema of edwh_auth_rbac/migrations.py: the identity,          *)
(* membership and permission tables, the recursive views                   *)
(* recursive_memberships / recursive_members and the function rbac_tree.   *)
(* A recursive common table expression is evaluated the way PostgreSQL     *)
(* evaluates WITH RECURSIVE ... UNION ALL: the non-recursive term fills    *)
(* the result and the working table; each iteration evaluates the          *)
(* recursive term against the working table, appends what it produced to   *)
(* the result and makes it the next working table; the evaluation ends     *)
(* when the working table is empty.  Tables and results are bags of rows.  *)
(***************************************************************************)
EXTENDS Integers, Sequences, FiniteSets, Bags, TLC

VARIABLES
    identity,     \* table identity, by object_id
    membership,   \* table membership, a sequence of rows
    permission,   \* table permission, a sequence of rows
    query,        \* the view or function that is being read
    step,         \* iterations of its recursive term made so far
    m,            \* result of the CTE m of the view that is being read
    m_work,       \* its working table
    root_email,   \* argument of rbac_tree
    member_tree,  \* result of the CTE member_tree
    mt_work,      \* its working table
    tree_out,     \* rows rbac_tree returns, each with its ORDER BY key
    decision      \* the question put to has_permission and its answer, if any

tables == <<identity, membership, permission>>

viewState == <<m, m_work>>

treeState == <<root_email, member_tree, mt_work, tree_out>>

vars == <<tables, query, step, viewState, treeState, decision>>

----------------------------------------------------------------------------
(* Bounds of the model. *)

MaxIds == 3

MaxEdges == 3

MaxLevel == 4

----------------------------------------------------------------------------
(* SQL values.  A nullable text is Null or <<t>>, t a sequence of          *)
(* characters.                                                             *)

Null == << >>

Text(t) == <<t>>

IsNull(v) == v = Null

\* a || b : NULL when either side is NULL
Concat(a, b) == IF IsNull(a) \/ IsNull(b) THEN Null ELSE Text(a[1] \o b[1])

\* COALESCE(a, b)
Coalesce(a, b) == IF IsNull(a) THEN b ELSE a

RECURSIVE SumFn(_)
SumFn(f) ==
    IF DOMAIN f = {} THEN 0
    ELSE LET x == CHOOSE y \in DOMAIN f : TRUE
         IN  f[x] + SumFn([y \in DOMAIN f \ {x} |-> f[y]])

\* the bag holding count[r] copies of every row r that count gives any
BagOf(count) ==
    LET D == {r \in DOMAIN count : count[r] > 0} IN [r \in D |-> count[r]]

----------------------------------------------------------------------------
(* Tables. *)

ObjectIds == 1..MaxIds

\* a row of "identity"
Identity(oid, otype, email, firstname, fullname) ==
    [object_id |-> oid, object_type |-> otype, email |-> email,
     firstname |-> firstname, fullname |-> fullname]

\* a row of "membership"
Membership(subject, member_of) == [subject |-> subject, member_of |-> member_of]

\* DEFAULT of permission.starts, '2000-01-01 00:00:00', as its year
DefaultStarts == 2000

\* DEFAULT of permission.ends, '3000-01-01 00:00:00', as its year
DefaultEnds == 3000

\* a row of "permission" as INSERT stores it: starts and ends are NOT NULL and
\* take their DEFAULT when the INSERT gives none (Null here).  A timestamp is
\* written as its year, <<y>> in the INSERT.
Permission(privilege, ident, target, starts, ends) ==
    [privilege |-> privilege, identity_object_id |-> ident,
     target_object_id |-> target,
     starts |-> IF IsNull(starts) THEN DefaultStarts ELSE starts[1],
     ends |-> IF IsNull(ends) THEN DefaultEnds ELSE ends[1]]

\* the object_ids of the identity table (object_id is NOT NULL UNIQUE)
Ids == DOMAIN identity

\* number of membership rows with this subject and member_of
EdgeCount(s, g) ==
    Cardinality({k \in DOMAIN membership :
                    membership[k].subject = s /\ membership[k].member_of = g})

----------------------------------------------------------------------------
(* The views recursive_memberships and recursive_members. *)

\* a row of the CTE m(root, object_id, object_type, level, email, firstname, fullname)
MRow(root, oid, level) ==
    [root |-> root, object_id |-> oid, object_type |-> identity[oid].object_type,
     level |-> level, email |-> identity[oid].email,
     firstname |-> identity[oid].firstname, fullname |-> identity[oid].fullname]

\* non-recursive term of both views: every identity, as its own root, level 0
MBase == BagOf([r \in {MRow(i, i, 0) : i \in Ids} |-> 1])

\* RecursiveMembershipsTerm joining membership to m on member_of, as the other
\* view does
RecursiveMembershipsTerm_WrongJoin(w) ==
    LET cand == {MRow(r.root, s, r.level + 1) : r \in DOMAIN w, s \in Ids}
        copies(c) == SumFn([r \in {x \in DOMAIN w : x.root = c.root /\ x.level + 1 = c.level}
                              |-> w[r] * EdgeCount(c.object_id, r.object_id)])
    IN  BagOf([c \in cand |-> copies(c)])

\* RecursiveMembershipsTerm joining membership to the level-0 rows of m only
RecursiveMembershipsTerm_DirectOnly(w) ==
    LET cand == {MRow(r.root, g, r.level + 1) : r \in DOMAIN w, g \in Ids}
        copies(c) == SumFn([r \in {x \in DOMAIN w : /\ x.root = c.root
                                                     /\ x.level + 1 = c.level
                                                     /\ x.level = 0}
                              |-> w[r] * EdgeCount(r.object_id, c.object_id)])
    IN  BagOf([c \in cand |-> copies(c)])

\* RecursiveMembershipsTerm with a LEFT JOIN on identity: a member_of that is
\* no identity yields a row without attributes
RecursiveMembershipsTerm_LeftJoin(w) ==
    LET row(root, g, level) ==
            IF g \in Ids THEN MRow(root, g, level)
            ELSE [root |-> root, object_id |-> g, object_type |-> "", level |-> level,
                  email |-> Null, firstname |-> Null, fullname |-> Null]
        cand == {row(r.root, g, r.level + 1) : r \in DOMAIN w, g \in ObjectIds}
        copies(c) == SumFn([r \in {x \in DOMAIN w : x.root = c.root /\ x.level + 1 = c.level}
                              |-> w[r] * EdgeCount(r.object_id, c.object_id)])
    IN  BagOf([c \in cand |-> copies(c)])

\* recursive term of recursive_memberships against the working table w:
\* membership JOIN m ON subject = m.object_id JOIN identity i ON i.object_id = member_of
RecursiveMembershipsTerm(w) ==
    LET cand == {MRow(r.root, g, r.level + 1) : r \in DOMAIN w, g \in Ids}
        copies(c) == SumFn([r \in {x \in DOMAIN w : x.root = c.root /\ x.level + 1 = c.level}
                              |-> w[r] * EdgeCount(r.object_id, c.object_id)])
    IN  BagOf([c \in cand |-> copies(c)])

\* recursive term of recursive_members against the working table w:
\* membership JOIN m ON member_of = m.object_id JOIN identity i ON i.object_id = subject
RecursiveMembersTerm(w) ==
    LET cand == {MRow(r.root, s, r.level + 1) : r \in DOMAIN w, s \in Ids}
        copies(c) == SumFn([r \in {x \in DOMAIN w : x.root = c.root /\ x.level + 1 = c.level}
                              |-> w[r] * EdgeCount(c.object_id, r.object_id)])
    IN  BagOf([c \in cand |-> copies(c)])

----------------------------------------------------------------------------
(* The function rbac_tree(root_email). *)

\* COALESCE(i.fullname, i.firstname) AS display_name
DisplayName(i) == Coalesce(identity[i].fullname, identity[i].firstname)

\* a row of the CTE member_tree
TreeRow(oid, depth, id_path, sort_path) ==
    [object_id |-> oid, email |-> identity[oid].email,
     display_name |-> DisplayName(oid), object_type |-> identity[oid].object_type,
     depth |-> depth, id_path |-> id_path, sort_path |-> sort_path]

\* object_id = ANY(id_path)
AnyOf(oid, id_path) == \E k \in DOMAIN id_path : id_path[k] = oid

\* IsTreeRoot counting only membership rows to another, existing identity
IsTreeRoot_OtherIdentity(i, re) ==
    \/ (~IsNull(re) /\ identity[i].email = re)
    \/ /\ IsNull(re)
       /\ ~\E k \in DOMAIN membership :
              /\ membership[k].subject = i
              /\ membership[k].member_of \in Ids \ {i}
       /\ identity[i].object_type = "group"

\* WHERE of the non-recursive term: the identity named by root_email, or,
\* without a root_email, the groups that are the subject of no membership row
IsTreeRoot(i, re) ==
    \/ (~IsNull(re) /\ identity[i].email = re)
    \/ /\ IsNull(re)
       /\ ~\E k \in DOMAIN membership : membership[k].subject = i
       /\ identity[i].object_type = "group"

\* non-recursive term of member_tree
MemberTreeBase(re) ==
    BagOf([r \in {TreeRow(i, 0, <<i>>, identity[i].email) :
                      i \in {j \in Ids : IsTreeRoot(j, re)}} |-> 1])

\* the row the recursive term makes of member i under the row mt
TreeChild(mt, i) ==
    TreeRow(i, mt.depth + 1, Append(mt.id_path, i),
            Concat(Concat(mt.sort_path, Text(<<"|">>)), identity[i].email))

\* Expandable without the check of the path
Expandable_Always(mt, i) == TRUE

\* Expandable refusing every identity the tree already holds anywhere
Expandable_NotYetInTree(mt, i) ==
    ~\E r \in DOMAIN member_tree : r.object_id = i

\* WHERE of the recursive term: NOT (i.object_id = ANY(mt.id_path))
Expandable(mt, i) == ~AnyOf(i, mt.id_path)

\* recursive term of member_tree against the working table w:
\* identity i JOIN membership m ON i.object_id = m.subject
\*            JOIN member_tree mt ON m.member_of = mt.object_id
MemberTreeTerm(w) ==
    LET cand == {TreeChild(r, i) : r \in DOMAIN w, i \in Ids}
        copies(c) ==
            SumFn([r \in {x \in DOMAIN w : /\ Expandable(x, c.object_id)
                                           /\ TreeChild(x, c.object_id) = c}
                     |-> w[r] * EdgeCount(c.object_id, r.object_id)])
    IN  BagOf([c \in cand |-> copies(c)])

\* REPEAT('^', depth)
RECURSIVE Repeat(_, _)
Repeat(ch, k) == IF k <= 0 THEN << >> ELSE <<ch>> \o Repeat(ch, k - 1)

\* a row of the final SELECT with the key ORDER BY sorts it on:
\* sort_path, object_type DESC, display_name
TreeOutput(r) ==
    [sort_key |-> <<r.sort_path, r.object_type, r.display_name>>,
     row |-> [tree |-> Concat(Concat(Text(Repeat("^", r.depth)), Text(<<" ">>)),
                              r.display_name),
              object_type |-> r.object_type, email |-> r.email]]

\* the rows of the final SELECT, as a bag
TreeOutputs(mt) ==
    LET cand == {TreeOutput(r) : r \in DOMAIN mt}
        copies(o) == SumFn([r \in {x \in DOMAIN mt : TreeOutput(x) = o} |-> mt[r]])
    IN  BagOf([c \in cand |-> copies(c)])

----------------------------------------------------------------------------
(* Initial states: the tables after rbac_tables, filled by the             *)
(* application; the views not yet read.                                    *)

EdgeKey(e) == e.subject * (MaxIds + 1) + e.member_of

\* membership tables of at most maxRows rows over the object ids O, duplicates
\* and rows naming an absent identity included; one table per bag of rows
MembershipTablesOver(O, maxRows) ==
    LET E == {Membership(s, g) : s \in O, g \in O}
    IN  UNION {{q \in [1..k -> E] :
                   \A i \in 1..(k - 1) : EdgeKey(q[i]) <= EdgeKey(q[i + 1])}
               : k \in 0..maxRows}

MembershipTables == MembershipTablesOver(ObjectIds, MaxEdges)

\* identity rows 1..n: the first a user, the others groups
PlainIdentities(n) ==
    [i \in 1..n |-> Identity(i, IF i = 1 THEN "user" ELSE "group",
                             Text(<<"a">>), Text(<<"n">>), Null)]

\* no view or function has been read yet
Idle ==
    /\ query = "idle"
    /\ m = EmptyBag /\ m_work = EmptyBag /\ step = 0
    /\ root_email = Null /\ member_tree = EmptyBag /\ mt_work = EmptyBag
    /\ tree_out = EmptyBag
    /\ decision = << >>

InitClosure ==
    /\ \E n \in 1..MaxIds : identity = PlainIdentities(n)
    /\ membership \in MembershipTables
    /\ permission = << >>
    /\ Idle

----------------------------------------------------------------------------
(* Reading a view: the non-recursive term, then one iteration of the       *)
(* recursive term per step while the working table is not empty.           *)

SelectRecursiveMemberships ==
    /\ query = "idle"
    /\ query' = "recursive_memberships"
    /\ m' = MBase /\ m_work' = MBase /\ step' = 0
    /\ UNCHANGED <<tables, treeState, decision>>

IterateRecursiveMemberships ==
    /\ query = "recursive_memberships"
    /\ m_work # EmptyBag
    /\ step < MaxLevel
    /\ m_work' = RecursiveMembershipsTerm(m_work)
    /\ m' = m (+) m_work'
    /\ step' = step + 1
    /\ UNCHANGED <<tables, query, treeState, decision>>

SelectRecursiveMembers ==
    /\ query = "idle"
    /\ query' = "recursive_members"
    /\ m' = MBase /\ m_work' = MBase /\ step' = 0
    /\ UNCHANGED <<tables, treeState, decision>>

IterateRecursiveMembers ==
    /\ query = "recursive_members"
    /\ m_work # EmptyBag
    /\ step < MaxLevel
    /\ m_work' = RecursiveMembersTerm(m_work)
    /\ m' = m (+) m_work'
    /\ step' = step + 1
    /\ UNCHANGED <<tables, query, treeState, decision>>

NextClosure ==
    \/ SelectRecursiveMemberships
    \/ IterateRecursiveMemberships
    \/ SelectRecursiveMembers
    \/ IterateRecursiveMembers

SpecClosure == InitClosure /\ [][NextClosure]_vars

----------------------------------------------------------------------------
(* Calling rbac_tree: the non-recursive term, the iterations of the        *)
(* recursive term, then the final SELECT.                                  *)

\* identity rows 1..n; either the types are any and every email is "a", or
\* the emails are any of NULL and "a" and the types are those of PlainIdentities
InitTree ==
    /\ \E n \in 1..MaxIds :
         \E ty \in [1..n -> {"user", "group"}], em \in [1..n -> {Null, Text(<<"a">>)}] :
            /\ \/ \A i \in 1..n : em[i] = Text(<<"a">>)
               \/ \A i \in 1..n : ty[i] = PlainIdentities(n)[i].object_type
            /\ identity = [i \in 1..n |-> Identity(i, ty[i], em[i], Text(<<"n">>), Null)]
    /\ membership \in MembershipTables
    /\ permission = << >>
    /\ Idle

SortIds == 3

SortEdges == 2

\* identity rows 1..n with any type, email and names, few membership rows
InitSort ==
    /\ \E n \in 1..SortIds :
         \E ty \in [1..n -> {"user", "group"}],
            em \in [1..n -> {Null, Text(<<"a">>), Text(<<"b">>)}],
            fu \in [1..n -> {Null, Text(<<"x">>)}] :
            identity = [i \in 1..n |-> Identity(i, ty[i], em[i], Text(<<"y">>), fu[i])]
    /\ membership \in MembershipTablesOver(1..SortIds, SortEdges)
    /\ permission = << >>
    /\ Idle

\* the values rbac_tree is called with: no root_email, or one of the table
RootEmails == {Null} \cup {identity[i].email : i \in Ids}

CallRbacTree(re) ==
    /\ query = "idle"
    /\ query' = "rbac_tree"
    /\ root_email' = re
    /\ member_tree' = MemberTreeBase(re) /\ mt_work' = MemberTreeBase(re)
    /\ step' = 0
    /\ UNCHANGED <<tables, viewState, tree_out, decision>>

IterateMemberTree ==
    /\ query = "rbac_tree"
    /\ mt_work # EmptyBag
    /\ mt_work' = MemberTreeTerm(mt_work)
    /\ member_tree' = member_tree (+) mt_work'
    /\ step' = step + 1
    /\ UNCHANGED <<tables, query, viewState, root_email, tree_out, decision>>

ReturnRbacTree ==
    /\ query = "rbac_tree"
    /\ mt_work = EmptyBag
    /\ tree_out' = TreeOutputs(member_tree)
    /\ query' = "rbac_tree returned"
    /\ UNCHANGED <<tables, step, viewState, root_email, member_tree, mt_work, decision>>

NextTree ==
    \/ \E re \in RootEmails : CallRbacTree(re)
    \/ IterateMemberTree
    \/ ReturnRbacTree

SpecTree == InitTree /\ [][NextTree]_vars

SpecSort == InitSort /\ [][NextTree]_vars

----------------------------------------------------------------------------
(* Permission decisions, on the rows of recursive_memberships.             *)

\* whether subject holds privilege on target at the instant now: some
\* permission row of that privilege and target, held by an identity of the
\* subject's rows of recursive_memberships, with starts <= now <= ends
HasPermission(subject, privilege, target, now) ==
    \E k \in DOMAIN permission :
        /\ permission[k].privilege = privilege
        /\ permission[k].target_object_id = target
        /\ \E r \in DOMAIN m :
               r.root = subject /\ r.object_id = permission[k].identity_object_id
        /\ permission[k].starts <= now
        /\ now <= permission[k].ends

Privileges == {"read", "admin"}

Targets == {"doc-1", "doc-2"}

\* validity windows of the grants: the defaults, one that ended in 2020 and
\* one that is the single instant 2025
Windows == {<<Null, Null>>, <<Null, <<2020>>>>, <<<<2025>>, <<2025>>>>}

\* the instants decisions are asked for
Instants == {2020, 2025}

MaxGrants == 1

PermEdges == 2

PermissionKey(g) == (g.identity_object_id * 10000 + g.starts) * 10000 + g.ends

\* permission tables of at most MaxGrants rows granting "read" on "doc-1"
PermissionTables ==
    LET G == {Permission("read", i, "doc-1", w[1], w[2]) : i \in ObjectIds, w \in Windows}
    IN  UNION {{q \in [1..k -> G] :
                   \A i \in 1..(k - 1) : PermissionKey(q[i]) < PermissionKey(q[i + 1])}
               : k \in 0..MaxGrants}

InitPerm ==
    /\ identity = PlainIdentities(MaxIds)
    /\ membership \in MembershipTablesOver(ObjectIds, PermEdges)
    /\ permission \in PermissionTables
    /\ Idle

\* has_permission answers once recursive_memberships is read to its end
AskHasPermission(subject, privilege, target, now) ==
    /\ query = "recursive_memberships"
    /\ m_work = EmptyBag
    /\ decision = << >>
    /\ decision' = <<[subject |-> subject, privilege |-> privilege,
                      target |-> target, now |-> now,
                      granted |-> HasPermission(subject, privilege, target, now)]>>
    /\ UNCHANGED <<tables, query, step, viewState, treeState>>

NextPerm ==
    \/ SelectRecursiveMemberships
    \/ IterateRecursiveMemberships
    \/ \E subject \in Ids, privilege \in Privileges, target \in Targets, now \in Instants :
          AskHasPermission(subject, privilege, target, now)

SpecPerm == InitPerm /\ [][NextPerm]_vars

----------------------------------------------------------------------------
(* The membership graph, as a graph: what the closures are compared with.  *)

Views == {"recursive_memberships", "recursive_members"}

\* the neighbours of x in the direction the view that is being read follows
Neighbours(x) ==
    IF query = "recursive_members"
    THEN {s \in Ids : EdgeCount(s, x) > 0}
    ELSE {g \in Ids : EdgeCount(x, g) > 0}

\* the identities at most k edges away from x
RECURSIVE Within(_, _)
Within(x, k) ==
    IF k = 0 THEN {x}
    ELSE LET W == Within(x, k - 1) IN W \cup UNION {Neighbours(y) : y \in W}

\* x and everything reachable from x
Reach(x) == Within(x, Cardinality(Ids))

\* length of the shortest path from x to y, y reachable from x
Dist(x, y) == CHOOSE k \in 0..Cardinality(Ids) :
                 /\ y \in Within(x, k)
                 /\ \A j \in 0..(k - 1) : y \notin Within(x, j)

\* no identity is reachable from itself by one or more edges
Acyclic == \A x \in Ids : \A y \in Neighbours(x) : x \notin Reach(y)

\* every membership row names existing identities on both ends
NoDangling ==
    \A k \in DOMAIN membership :
        membership[k].subject \in Ids /\ membership[k].member_of \in Ids

\* the rows of the view for one root
RowsOf(x) == {r \in DOMAIN m : r.root = x}

----------------------------------------------------------------------------
(* C1: the closures terminate on every finite input, cyclic ones included. *)
(* The working table after k iterations holds one row per walk of k edges; *)
(* among n identities a walk of n edges repeats an identity, so a working  *)
(* table that is not empty after n iterations never becomes empty.         *)
C1_ClosuresTerminate ==
    (query \in Views /\ step >= Cardinality(Ids)) => m_work = EmptyBag

(* C2: a closure holds at most one record per (root, object_id), whatever  *)
(* duplicate edges, diamonds or cycles the graph has.                      *)
C2_OneRecordPerObject ==
    query \in Views =>
        \A r \in DOMAIN m :
            /\ m[r] = 1
            /\ \A r2 \in DOMAIN m :
                   (r2.root = r.root /\ r2.object_id = r.object_id) => r2 = r

(* C3: on an acyclic graph the level of every closure record is the length *)
(* of the shortest path from its root to its object_id.                    *)
C3_LevelIsShortestPath ==
    (query \in Views /\ Acyclic) =>
        \A r \in DOMAIN m : r.level = Dist(r.root, r.object_id)

\* the closure holds every row it will ever hold a first copy of
Complete == m_work = EmptyBag \/ step >= Cardinality(Ids)

(* C4: when every edge names existing identities, the identities in the    *)
(* closure of x are x, at level 0, and exactly the identities reachable    *)
(* from x along the closure's direction: none unreachable, none missing.   *)
C4_ClosureIsReachableSet ==
    (query \in Views /\ NoDangling) =>
        \A x \in Ids :
            /\ {r \in RowsOf(x) : r.level = 0} = {MRow(x, x, 0)}
            /\ m[MRow(x, x, 0)] = 1
            /\ {r.object_id : r \in RowsOf(x)} \subseteq Reach(x)
            /\ Complete => {r.object_id : r \in RowsOf(x)} = Reach(x)

\* an ancestor closure read to its end on a graph with a chain of two edges
C4_Witness ==
    /\ query = "recursive_memberships" /\ NoDangling /\ m_work = EmptyBag
    /\ step > 0
    /\ \E r \in DOMAIN m : r.level = 2 /\ Dist(r.root, r.object_id) = 2

\* the neighbour end of a membership row, in the direction of the view
NeighbourEnd(k) ==
    IF query = "recursive_members" THEN membership[k].subject
    ELSE membership[k].member_of

\* the end of a membership row the view joins its working table on
JoinedEnd(k) ==
    IF query = "recursive_members" THEN membership[k].member_of
    ELSE membership[k].subject

(* C6: a membership row whose neighbour end names no identity is skipped:  *)
(* the absent id is never a closure record, and a root whose edges all     *)
(* dangle has the closure {root at level 0}, read to its end in one step.  *)
C6_DanglingEdgeSkipped ==
    query \in Views =>
        /\ \A r \in DOMAIN m : r.object_id \in Ids /\ r.root \in Ids
        /\ \A x \in Ids :
               (\A k \in DOMAIN membership :
                    JoinedEnd(k) = x => NeighbourEnd(k) \notin Ids)
               => /\ RowsOf(x) = {MRow(x, x, 0)}
                  /\ m[MRow(x, x, 0)] = 1
        /\ ((\A k \in DOMAIN membership : NeighbourEnd(k) \notin Ids) /\ step >= 1)
               => m_work = EmptyBag

\* the single edge U -> ghost, the ancestor closure iterated once
C6_Witness ==
    /\ query = "recursive_memberships"
    /\ Len(membership) = 1
    /\ membership[1].subject \in Ids /\ membership[1].member_of \notin Ids
    /\ step = 1 /\ m_work = EmptyBag
    /\ RowsOf(membership[1].subject) = {MRow(membership[1].subject, membership[1].subject, 0)}

----------------------------------------------------------------------------
(* Claims about rbac_tree. *)

TreeCalled == query \in {"rbac_tree", "rbac_tree returned"}

(* C7: rbac_tree, with or without a root, terminates on every finite       *)
(* input, cyclic ones included: the recursive term is iterated at most as  *)
(* many times as there are identities, and every row of member_tree has a  *)
(* depth smaller than the number of identities.                            *)
C7_TreeTerminates ==
    TreeCalled =>
        /\ step <= Cardinality(Ids)
        /\ step >= Cardinality(Ids) => mt_work = EmptyBag
        /\ \A r \in DOMAIN member_tree : r.depth < Cardinality(Ids)
        /\ \A r \in DOMAIN mt_work : r.depth = step

\* a tree returned for a graph in which two identities are members of each other
C7_Witness ==
    /\ query = "rbac_tree returned"
    /\ \E r \in DOMAIN member_tree :
          /\ r.depth >= 1
          /\ \E a \in Ids : /\ a # r.object_id
                            /\ AnyOf(a, r.id_path)
                            /\ EdgeCount(a, r.object_id) > 0
                            /\ EdgeCount(r.object_id, a) > 0

\* the rows of member_tree directly under the row r that are about identity i
ChildrenOf(r, i) ==
    {c \in DOMAIN member_tree : c.id_path = Append(r.id_path, i)}

DepthZero == {r.object_id : r \in {x \in DOMAIN member_tree : x.depth = 0}}

(* C9 as stated: without a root the depth-0 rows are exactly the groups    *)
(* that are not a member of any other identity; a group whose only         *)
(* membership edge is to itself is top-level.                              *)
C9_TopLevelIgnoresSelfEdge ==
    (TreeCalled /\ IsNull(root_email)) =>
        DepthZero =
            {i \in Ids : /\ identity[i].object_type = "group"
                         /\ ~\E g \in Ids \ {i} : EdgeCount(i, g) > 0}

(* C9, amended: without a root the depth-0 rows are exactly the groups     *)
(* that are the subject of no membership row at all, one row each; a user  *)
(* is never a depth-0 row, and neither is a group whose only membership    *)
(* row is to itself or to an id that is no identity.                       *)
C9_TopLevelGroups ==
    (TreeCalled /\ IsNull(root_email)) =>
        /\ DepthZero =
             {i \in Ids : /\ identity[i].object_type = "group"
                          /\ \A k \in DOMAIN membership : membership[k].subject # i}
        /\ \A r \in DOMAIN member_tree : r.depth = 0 => member_tree[r] = 1

\* a tree without root returned: a top-level group, a user without
\* memberships and a group whose only membership row is to itself
C9_Witness ==
    /\ query = "rbac_tree returned" /\ IsNull(root_email)
    /\ DepthZero # {}
    /\ \E u \in Ids \ DepthZero :
          /\ identity[u].object_type = "user"
          /\ \A k \in DOMAIN membership : membership[k].subject # u
    /\ \E g \in Ids \ DepthZero :
          /\ identity[g].object_type = "group"
          /\ EdgeCount(g, g) = Len(membership)
          /\ Len(membership) > 0 

(* C10: the ORDER BY of rbac_tree leaves no two distinct output rows       *)
(* tied: rows with the same key (sort_path, object_type, display_name)     *)
(* are the same output row, also when emails are equal or absent.          *)
C10_NoTiedRows ==
    query = "rbac_tree returned" =>
        \A a, b \in DOMAIN tree_out : a.sort_key = b.sort_key => a.row = b.row

----------------------------------------------------------------------------
(* Claims about permission decisions. *)

\* subject and every identity it is a member of, directly or not
Ancestors(subject) == Reach(subject)

====
